---- MODULE Spec2Model ----
(***************************************************************************)
(* State-machine model of src/src/App.tsx (APTITUDE TEST AI): the question *)
(* loader, the four-screen assessment flow, scoring and the voice-over     *)
(* effect.  Indices are 0-based as in the source; TLA+ sequences are       *)
(* 1-based, so questions[k] of the source is questions[k + 1] here.        *)
(***************************************************************************)
EXTENDS Integers, Sequences, FiniteSets, TLC

(***************************************************************************)
(* Bounds of the model.                                                    *)
(***************************************************************************)
\* longest questions.json (number of raw records) explored by Spec
MaxRaw == 3
\* largest category size explored by SpecScore
MaxTotal == 42
\* longest questions.json explored by SpecLoad
MaxLoad == 2
\* longest questions.json explored by SpecLive
MaxLive == 3

(***************************************************************************)
(* Raw input alphabet (questions.json, interface RawQuestion).             *)
(***************************************************************************)
CategoryNames == {"Logical Reasoning", "Verbal Ability"}

\* the option list carried by the raw records of Spec
RawOptions == <<"opt0", "opt1">>

\* answer letters that occur in the modelled input; "C" lies outside the
\* two options, the source does not validate it
AnswerLetters == {"A", "B", "C"}

\* String.prototype.charCodeAt(0) on the letters above
charCodeAt(s) == CASE s = "A" -> 65
                   [] s = "B" -> 66
                   [] s = "C" -> 67

RawQuestion == [category : CategoryNames, answer : AnswerLetters, options : {RawOptions}]

RawSequences == UNION {[1..n -> RawQuestion] : n \in 0..MaxRaw}

\* raw records of SpecLoad: category is any string, among them a name that
\* every object literal already carries
LoadCategoryNames == CategoryNames \cup {"constructor"}

LoadRawQuestion ==
  [category : LoadCategoryNames, answer : AnswerLetters, options : {RawOptions}]

LoadRawSequences == UNION {[1..n -> LoadRawQuestion] : n \in 0..MaxLoad}

\* raw records of SpecLive: options is any string[], among them the empty one
LiveRawQuestion ==
  [category : CategoryNames, answer : {"A"}, options : {<<>>, RawOptions}]

LiveRawSequences == UNION {[1..n -> LiveRawQuestion] : n \in 0..MaxLive}

(***************************************************************************)
(* The loader's normalisation and grouping (load useEffect).               *)
(***************************************************************************)
\* const formatted: Question = { id: index + 1, ..., correct: correctIndex }
\* (k is the 1-based position, so index + 1 = k)
formatted(data, k) ==
  [id       |-> k,
   options  |-> data[k].options,
   correct  |-> charCodeAt(data[k].answer) - charCodeAt("A"),
   category |-> data[k].category]

\* the record without the grouping key, as stored in grouped[q.category]
Question(f) == [id |-> f.id, options |-> f.options, correct |-> f.correct]

\* grouped is the object literal {}: these keys are already defined on it
\* through Object.prototype, with values that are truthy and have no push
ObjectPrototypeKeys ==
  {"constructor", "toString", "valueOf", "hasOwnProperty", "__proto__"}

\* if (!grouped[q.category]) grouped[q.category] = []; grouped[q.category].push(...)
\* throws a TypeError on the first record whose category is such a key
groupingThrowsNever(data) == FALSE
groupingThrows(data) == \E k \in 1..Len(data) : data[k].category \in ObjectPrototypeKeys

RECURSIVE groupedFrom(_, _, _)
\* grouped[c] after the forEach has processed records k..Len(data)
groupedFrom(data, c, k) ==
  IF k > Len(data) THEN <<>>
  ELSE IF data[k].category = c
       THEN <<Question(formatted(data, k))>> \o groupedFrom(data, c, k + 1)
       ELSE groupedFrom(data, c, k + 1)

RECURSIVE keyOrder(_, _, _)
\* Object.entries(grouped) order: keys in order of first insertion
keyOrder(data, k, seen) ==
  IF k > Len(data) THEN <<>>
  ELSE IF data[k].category \in seen
       THEN keyOrder(data, k + 1, seen)
       ELSE <<data[k].category>> \o keyOrder(data, k + 1, seen \cup {data[k].category})

\* categories: TestCategory[] (the slug id and the icon are presentation
\* only and are not part of the modelled state)
categories(data) ==
  LET keys == keyOrder(data, 1, {})
  IN  [j \in 1..Len(keys) |->
         [name |-> keys[j], questions |-> groupedFrom(data, keys[j], 1)]]

(***************************************************************************)
(* Program state.                                                          *)
(***************************************************************************)
VARIABLES
  currentState,          \* useState<AppState>('welcome')
  selectedCategory,      \* useState<TestCategory | null>(null)
  currentQuestionIndex,  \* useState(0)
  userAnswers,           \* useState<number[]>([])
  showExplanation,       \* useState(false)
  score,                 \* useState(0)
  voiceOn,               \* useState(true)
  testCategories,        \* useState<TestCategory[]>([])
  rawData,               \* the content served for /questions.json
  loadStatus,            \* the load promise: "pending", "loaded", "failed"
                         \* (fetch or parse error), "threw" (grouping threw)
  speaking,              \* window.speechSynthesis: the queue of utterances,
                         \* each the id of the question it narrates
  lastEvent              \* history: the event handled last

vars == <<currentState, selectedCategory, currentQuestionIndex, userAnswers,
          showExplanation, score, voiceOn, testCategories, rawData,
          loadStatus, speaking, lastEvent>>

\* the null of useState<TestCategory | null>
NoCategory == [name |-> "", questions |-> <<>>]

AppState == {"welcome", "category-selection", "testing", "results"}

\* kind: the handler or callback that ran; arg: the option index of a
\* submitAnswer (0 otherwise); blocked: the event changed nothing because its
\* control is not rendered or its handler returned early
Event(kind, arg, blocked) == [kind |-> kind, arg |-> arg, blocked |-> blocked]

Init ==
  /\ currentState = "welcome"
  /\ selectedCategory = NoCategory
  /\ currentQuestionIndex = 0
  /\ userAnswers = <<>>
  /\ showExplanation = FALSE
  /\ score = 0
  /\ voiceOn = TRUE
  /\ testCategories = <<>>
  /\ rawData \in RawSequences
  /\ loadStatus = "pending"
  /\ speaking = <<>>
  /\ lastEvent = Event("mount", 0, FALSE)

(***************************************************************************)
(* Render branches: which screen, and so which controls, exist.            *)
(***************************************************************************)
WelcomeRendered == currentState = "welcome"

CategorySelectionRendered == currentState = "category-selection"

TestingRendered == currentState = "testing" /\ selectedCategory # NoCategory

ResultsRendered == currentState = "results" /\ selectedCategory # NoCategory

\* {showExplanation && ( ... <button onClick={handleNext}> ... )}
NextButtonAlwaysRendered == TRUE
NextButtonRendered == showExplanation

\* number of questions of a category
total(cat) == Len(cat.questions)

(***************************************************************************)
(* Voice-over effect, run after a commit that changed one of its deps.     *)
(***************************************************************************)
\* window.speechSynthesis.cancel(): drops every utterance
cancelled == <<>>

\* window.speechSynthesis.speak(utterance): queues behind what is there
speak(queue, id) == Append(queue, id)

\* body of the effect for the committed values; spk is the synthesizer
\* state left by the handler
voiceOverEffectIgnoringVoice(cat, idx, voice, spk) ==
  IF cat = NoCategory \/ idx + 1 > total(cat)
  THEN spk
  ELSE speak(cancelled, cat.questions[idx + 1].id)
voiceOverEffect(cat, idx, voice, spk) ==
  IF cat = NoCategory \/ idx + 1 > total(cat) \/ ~voice
  THEN spk
  ELSE speak(cancelled, cat.questions[idx + 1].id)

\* the synthesizer after the commit of the new values: the effect runs when
\* one of [selectedCategory, currentQuestionIndex, voiceOn] has changed
afterCommitWithoutVoiceDep(cat, idx, voice, spk) ==
  IF <<cat, idx>> # <<selectedCategory, currentQuestionIndex>>
  THEN voiceOverEffect(cat, idx, voice, spk)
  ELSE spk
afterCommitWithoutIndexDep(cat, idx, voice, spk) ==
  IF <<cat, voice>> # <<selectedCategory, voiceOn>>
  THEN voiceOverEffect(cat, idx, voice, spk)
  ELSE spk
afterCommit(cat, idx, voice, spk) ==
  IF <<cat, idx, voice>> # <<selectedCategory, currentQuestionIndex, voiceOn>>
  THEN voiceOverEffect(cat, idx, voice, spk)
  ELSE spk

(***************************************************************************)
(* Loader resolution.                                                      *)
(***************************************************************************)
\* the records in front of the first one the grouping throws on
RECURSIVE beforeThrow(_, _)
beforeThrow(data, k) ==
  IF k > Len(data) \/ data[k].category \in ObjectPrototypeKeys
  THEN <<>>
  ELSE <<data[k]>> \o beforeThrow(data, k + 1)

loadResolvedPublishingEarly ==
  /\ loadStatus = "pending"
  /\ IF groupingThrows(rawData)
     THEN /\ loadStatus' = "threw"
          /\ testCategories' = categories(beforeThrow(rawData, 1))
     ELSE /\ loadStatus' = "loaded"
          /\ testCategories' = categories(rawData)
  /\ lastEvent' = Event("loadResolved", 0, FALSE)
  /\ UNCHANGED <<currentState, selectedCategory, currentQuestionIndex,
                 userAnswers, showExplanation, score, voiceOn, rawData, speaking>>

\* the fetch delivers rawData and the grouping callback runs; an exception
\* thrown inside it reaches the same .catch, before setTestCategories
loadResolved ==
  /\ loadStatus = "pending"
  /\ IF groupingThrows(rawData)
     THEN /\ loadStatus' = "threw"
          /\ UNCHANGED testCategories
     ELSE /\ loadStatus' = "loaded"
          /\ testCategories' = categories(rawData)
  /\ lastEvent' = Event("loadResolved", 0, FALSE)
  /\ UNCHANGED <<currentState, selectedCategory, currentQuestionIndex,
                 userAnswers, showExplanation, score, voiceOn, rawData, speaking>>

loadFailed ==
  /\ loadStatus = "pending"
  /\ loadStatus' = "failed"
  /\ lastEvent' = Event("loadFailed", 0, FALSE)
  /\ UNCHANGED <<currentState, selectedCategory, currentQuestionIndex,
                 userAnswers, showExplanation, score, voiceOn, testCategories,
                 rawData, speaking>>

(***************************************************************************)
(* Event handlers.                                                         *)
(***************************************************************************)
handleStart ==
  /\ WelcomeRendered
  /\ currentState' = "category-selection"
  /\ lastEvent' = Event("start", 0, FALSE)
  /\ UNCHANGED <<selectedCategory, currentQuestionIndex, userAnswers,
                 showExplanation, score, voiceOn, testCategories, rawData,
                 loadStatus, speaking>>

handleCategorySelect(category) ==
  /\ CategorySelectionRendered
  /\ selectedCategory' = category
  /\ currentState' = "testing"
  /\ currentQuestionIndex' = 0
  /\ userAnswers' = <<>>
  /\ showExplanation' = FALSE
  /\ score' = 0
  /\ speaking' = afterCommit(category, 0, voiceOn, speaking)
  /\ lastEvent' = Event("selectCategory", 0, FALSE)
  /\ UNCHANGED <<voiceOn, testCategories, rawData, loadStatus>>

\* the early return of handleAnswer: if (showExplanation) return
answerIgnoredNever == FALSE
answerIgnoredInverted == ~showExplanation
answerIgnored == showExplanation

\* const isCorrect = answerIndex === selectedCategory!.questions[currentQuestionIndex].correct
isCorrectAlways(answerIndex) == TRUE
isCorrect(answerIndex) ==
  answerIndex = selectedCategory.questions[currentQuestionIndex + 1].correct

\* const newAnswers = [...userAnswers, answerIndex]
newAnswersPrepended(answerIndex) == <<answerIndex>> \o userAnswers
newAnswers(answerIndex) == Append(userAnswers, answerIndex)

handleAnswer(answerIndex) ==
  /\ TestingRendered
  /\ IF answerIgnored
     THEN /\ lastEvent' = Event("submitAnswer", answerIndex, TRUE)
          /\ UNCHANGED <<userAnswers, score, showExplanation>>
     ELSE /\ userAnswers' = newAnswers(answerIndex)
          /\ score' = IF isCorrect(answerIndex) THEN score + 1 ELSE score
          /\ showExplanation' = TRUE
          /\ lastEvent' = Event("submitAnswer", answerIndex, FALSE)
  /\ speaking' = cancelled
  /\ UNCHANGED <<currentState, selectedCategory, currentQuestionIndex, voiceOn,
                 testCategories, rawData, loadStatus>>

\* currentQuestionIndex < selectedCategory!.questions.length - 1
hasNextQuestionNever == FALSE
hasNextQuestionOffByOne == currentQuestionIndex < total(selectedCategory)
hasNextQuestion == currentQuestionIndex < total(selectedCategory) - 1

\* the IF is the conditional rendering of the Next button: without the button
\* no handler runs; handleNext itself does not test showExplanation
handleNext ==
  /\ TestingRendered
  /\ IF NextButtonRendered
     THEN /\ IF hasNextQuestion
             THEN /\ currentQuestionIndex' = currentQuestionIndex + 1
                  /\ showExplanation' = FALSE
                  /\ currentState' = currentState
             ELSE /\ currentState' = "results"
                  /\ UNCHANGED <<currentQuestionIndex, showExplanation>>
          /\ speaking' = afterCommit(selectedCategory, currentQuestionIndex', voiceOn, cancelled)
          /\ lastEvent' = Event("advance", 0, FALSE)
     ELSE /\ lastEvent' = Event("advance", 0, TRUE)
          /\ UNCHANGED <<currentState, currentQuestionIndex, showExplanation, speaking>>
  /\ UNCHANGED <<selectedCategory, userAnswers, score, voiceOn, testCategories,
                 rawData, loadStatus>>

resetTestKeepingScore ==
  /\ ResultsRendered
  /\ currentState' = "welcome"
  /\ selectedCategory' = NoCategory
  /\ currentQuestionIndex' = 0
  /\ userAnswers' = <<>>
  /\ showExplanation' = FALSE
  /\ speaking' = afterCommit(NoCategory, 0, voiceOn, speaking)
  /\ lastEvent' = Event("reset", 0, FALSE)
  /\ UNCHANGED <<score, voiceOn, testCategories, rawData, loadStatus>>

resetTest ==
  /\ ResultsRendered
  /\ currentState' = "welcome"
  /\ selectedCategory' = NoCategory
  /\ currentQuestionIndex' = 0
  /\ userAnswers' = <<>>
  /\ showExplanation' = FALSE
  /\ score' = 0
  /\ speaking' = afterCommit(NoCategory, 0, voiceOn, speaking)
  /\ lastEvent' = Event("reset", 0, FALSE)
  /\ UNCHANGED <<voiceOn, testCategories, rawData, loadStatus>>

\* onClick of the voice button of the testing screen
toggleVoice ==
  /\ TestingRendered
  /\ voiceOn' = ~voiceOn
  /\ speaking' = afterCommit(selectedCategory, currentQuestionIndex, ~voiceOn, cancelled)
  /\ lastEvent' = Event(IF voiceOn THEN "toggleOff" ELSE "toggleOn", 0, FALSE)
  /\ UNCHANGED <<currentState, selectedCategory, currentQuestionIndex,
                 userAnswers, showExplanation, score, testCategories, rawData,
                 loadStatus>>

\* the utterance being spoken finishes on its own
speechEnded ==
  /\ speaking # <<>>
  /\ speaking' = Tail(speaking)
  /\ lastEvent' = Event("speechEnded", 0, FALSE)
  /\ UNCHANGED <<currentState, selectedCategory, currentQuestionIndex,
                 userAnswers, showExplanation, score, voiceOn, testCategories,
                 rawData, loadStatus>>

\* one button per entry of testCategories
selectCategoryFromRaw ==
  \E j \in 1..Len(categories(rawData)) : handleCategorySelect(categories(rawData)[j])
selectCategory ==
  \E j \in 1..Len(testCategories) : handleCategorySelect(testCategories[j])

\* one button per option of the current question.  The buttons carry
\* disabled={showExplanation}; handleAnswer tests the same flag itself, and the
\* handler is run here so that its own early return decides the outcome
submitAnswer ==
  /\ TestingRendered
  /\ \E i \in 0..(Len(selectedCategory.questions[currentQuestionIndex + 1].options) - 1) :
       handleAnswer(i)

Next ==
  \/ loadResolved
  \/ loadFailed
  \/ handleStart
  \/ selectCategory
  \/ submitAnswer
  \/ handleNext
  \/ resetTest
  \/ toggleVoice
  \/ speechEnded

Spec == Init /\ [][Next]_vars

\* testing render: const isCorrect = showExplanation &&
\*   userAnswers[currentQuestionIndex] === currentQuestion.correct
isCorrectShownFromFirstAnswer ==
  /\ showExplanation
  /\ userAnswers[1] = selectedCategory.questions[currentQuestionIndex + 1].correct
isCorrectShown ==
  /\ showExplanation
  /\ currentQuestionIndex + 1 <= Len(userAnswers)
  /\ userAnswers[currentQuestionIndex + 1] =
       selectedCategory.questions[currentQuestionIndex + 1].correct

(***************************************************************************)
(* Loader specification: the whole program on inputs whose category names  *)
(* include a property name of Object.prototype.                            *)
(***************************************************************************)
InitLoad ==
  /\ currentState = "welcome"
  /\ selectedCategory = NoCategory
  /\ currentQuestionIndex = 0
  /\ userAnswers = <<>>
  /\ showExplanation = FALSE
  /\ score = 0
  /\ voiceOn = TRUE
  /\ testCategories = <<>>
  /\ rawData \in LoadRawSequences
  /\ loadStatus = "pending"
  /\ speaking = <<>>
  /\ lastEvent = Event("mount", 0, FALSE)

SpecLoad == InitLoad /\ [][Next]_vars

(***************************************************************************)
(* Progress specification: the whole program on inputs whose questions may *)
(* have no options, with a user who keeps pressing an enabled option       *)
(* button and the Next button when it is shown.                            *)
(***************************************************************************)
InitLive ==
  /\ currentState = "welcome"
  /\ selectedCategory = NoCategory
  /\ currentQuestionIndex = 0
  /\ userAnswers = <<>>
  /\ showExplanation = FALSE
  /\ score = 0
  /\ voiceOn = TRUE
  /\ testCategories = <<>>
  /\ rawData \in LiveRawSequences
  /\ loadStatus = "pending"
  /\ speaking = <<>>
  /\ lastEvent = Event("mount", 0, FALSE)

\* a press of an option button that is not disabled
acceptedSubmit == ~answerIgnored /\ submitAnswer

\* a press of the rendered Next button
acceptedAdvance == NextButtonRendered /\ handleNext

SpecLive ==
  InitLive /\ [][Next]_vars /\ WF_vars(acceptedSubmit) /\ WF_vars(acceptedAdvance)

(***************************************************************************)
(* Scoring and summary of the results screen.                              *)
(***************************************************************************)
\* pairs <<score, total>> with total < 80 whose double (score / total) * 100
\* falls one ulp short of k + 0.5 although the exact quotient is k + 0.5, so
\* that Math.round rounds down
DoubleJustBelowHalf == {<<23, 40>>}

\* const percentage = Math.round((score / selectedCategory.questions.length) * 100)
percentageTruncated(s, t) == (100 * s) \div t
percentage(s, t) ==
  IF <<s, t>> \in DoubleJustBelowHalf
  THEN ((200 * s + t) \div (2 * t)) - 1
  ELSE (200 * s + t) \div (2 * t)

\* getScoreMessage: thresholds on the unrounded (score / length) * 100
getScoreMessage(s, t) ==
  IF 100 * s >= 80 * t THEN "Excellent performance."
  ELSE IF 100 * s >= 60 * t THEN "Good performance."
  ELSE IF 100 * s >= 40 * t THEN "Average performance."
  ELSE "Needs improvement."

\* what the results screen shows
shownAccuracy == percentage(score, total(selectedCategory))

shownMessage == getScoreMessage(score, total(selectedCategory))

(***************************************************************************)
(* Scoring specification: sessions on one category of 1..MaxTotal          *)
(* questions whose last question has been answered, with every score       *)
(* 0..total; the only step is the advance that shows the results.          *)
(***************************************************************************)
scoreRaw(t) ==
  [k \in 1..t |-> [category |-> "Logical Reasoning", answer |-> "A", options |-> RawOptions]]

InitScore ==
  \E t \in 1..MaxTotal : \E s \in 0..t :
    /\ rawData = scoreRaw(t)
    /\ loadStatus = "loaded"
    /\ testCategories = categories(scoreRaw(t))
    /\ selectedCategory = categories(scoreRaw(t))[1]
    /\ currentState = "testing"
    /\ currentQuestionIndex = t - 1
    /\ userAnswers = [k \in 1..t |-> IF k <= s THEN 0 ELSE 1]
    /\ showExplanation = TRUE
    /\ score = s
    /\ voiceOn = TRUE
    /\ speaking = <<>>
    /\ lastEvent = Event("submitAnswer", IF t <= s THEN 0 ELSE 1, FALSE)

NextScore == handleNext

SpecScore == InitScore /\ [][NextScore]_vars

(***************************************************************************)
(* Properties.                                                             *)
(***************************************************************************)
\* a session exists
HasSession == selectedCategory # NoCategory

\* the question at the 0-based position k of the selected category
questionAt(k) == selectedCategory.questions[k + 1]

\* positions of userAnswers that hold the correct index of their question
correctPositions ==
  {k \in 0..(Len(userAnswers) - 1) : userAnswers[k + 1] = questionAt(k).correct}

\* C1: in every state of a session, score <= length(answers) <= number of
\* questions of the selected category, and score is exactly the number of
\* recorded answers that equal the correct index of their question.
C1_ScoreCountsCorrectAnswers ==
  HasSession =>
    /\ score <= Len(userAnswers)
    /\ Len(userAnswers) <= total(selectedCategory)
    /\ score = Cardinality(correctPositions)

C1_Witness ==
  /\ HasSession
  /\ Len(userAnswers) >= 2
  /\ score >= 1
  /\ score < Len(userAnswers)

\* C2: in every state with a session, length(answers) = currentIndex while
\* the current question is unanswered and currentIndex + 1 once it has been
\* answered.
C2_AnswersTrackIndex ==
  HasSession =>
    Len(userAnswers) = currentQuestionIndex + (IF showExplanation THEN 1 ELSE 0)

C2_Witness ==
  /\ HasSession
  /\ showExplanation
  /\ currentQuestionIndex >= 1
  /\ lastEvent.kind = "submitAnswer"

\* C3: a submitAnswer issued while the current question has already been
\* answered leaves answers and score unchanged, whatever the index.
C3_DuplicateSubmitIgnored ==
  [][(lastEvent'.kind = "submitAnswer" /\ showExplanation)
       => (userAnswers' = userAnswers /\ score' = score)]_vars

C3_Witness ==
  /\ TestingRendered
  /\ showExplanation
  /\ lastEvent = Event("submitAnswer", questionAt(currentQuestionIndex).correct, TRUE)
  /\ score >= 1

\* C4: an advance issued before the current question has been answered
\* changes neither the flow state, the index, the answers nor the score.
C4_AdvanceBeforeAnswerNoOp ==
  [][(lastEvent'.kind = "advance" /\ ~showExplanation)
       => UNCHANGED <<currentState, currentQuestionIndex, userAnswers, score>>]_vars

C4_Witness ==
  /\ lastEvent = Event("advance", 0, TRUE)
  /\ TestingRendered
  /\ ~showExplanation
  /\ total(selectedCategory) >= 2

\* C5: a submitAnswer or advance step changes score by 0 or +1, by +1
\* exactly when it is an accepted submitAnswer(i) with i the correct index of
\* the current question; advance changes neither answers nor score; an
\* accepted submitAnswer appends exactly one entry, the submitted index.
C5_ScoreAndAnswersFrame ==
  [][lastEvent'.kind \in {"submitAnswer", "advance"} =>
       LET accepted == lastEvent'.kind = "submitAnswer" /\ ~showExplanation
       IN  /\ score' \in {score, score + 1}
           /\ (score' = score + 1) <=>
                (accepted /\ lastEvent'.arg = questionAt(currentQuestionIndex).correct)
           /\ lastEvent'.kind = "advance" =>
                (userAnswers' = userAnswers /\ score' = score)
           /\ accepted =>
                /\ Len(userAnswers') = Len(userAnswers) + 1
                /\ SubSeq(userAnswers', 1, Len(userAnswers)) = userAnswers
                /\ userAnswers'[Len(userAnswers')] = lastEvent'.arg]_vars

C5_Witness ==
  /\ HasSession
  /\ lastEvent.kind = "submitAnswer"
  /\ ~lastEvent.blocked
  /\ Len(userAnswers) >= 2
  /\ userAnswers[1] # userAnswers[2]
  /\ score = 1

\* C6: the flow state is one of the four screens, and it changes only from
\* Welcome to CategorySelection on start, from CategorySelection to Testing
\* on selectCategory, from Testing to Results on advance from the last
\* question, and from Results to Welcome on reset.
C6_FlowTransitions ==
  /\ [](currentState \in AppState)
  /\ [][currentState' # currentState =>
          \/ /\ currentState = "welcome"
             /\ currentState' = "category-selection"
             /\ lastEvent'.kind = "start"
          \/ /\ currentState = "category-selection"
             /\ currentState' = "testing"
             /\ lastEvent'.kind = "selectCategory"
          \/ /\ currentState = "testing"
             /\ currentState' = "results"
             /\ lastEvent'.kind = "advance"
             /\ currentQuestionIndex = total(selectedCategory) - 1
          \/ /\ currentState = "results"
             /\ currentState' = "welcome"
             /\ lastEvent'.kind = "reset"]_vars

C6_Witness ==
  /\ currentState = "results"
  /\ lastEvent.kind = "advance"
  /\ total(selectedCategory) >= 2

\* C7: Results is entered only by advance on the last question and, within a
\* session, once: the only way out of Results is the reset that ends the
\* session; currentIndex stays below the number of questions; when Results
\* is entered every question has exactly one recorded answer.
C7_ResultsOnceAfterAllAnswered ==
  /\ [](HasSession => currentQuestionIndex < total(selectedCategory))
  /\ [][(currentState' = "results" /\ currentState # "results") =>
          /\ lastEvent'.kind = "advance"
          /\ currentState = "testing"
          /\ currentQuestionIndex = total(selectedCategory) - 1
          /\ selectedCategory' = selectedCategory
          /\ Len(userAnswers') = total(selectedCategory)]_vars
  /\ [][currentState = "results" =>
          \/ currentState' = "results" /\ selectedCategory' = selectedCategory
          \/ lastEvent'.kind = "reset" /\ ~HasSession']_vars

C7_Witness ==
  /\ ResultsRendered
  /\ total(selectedCategory) >= 2
  /\ Len(userAnswers) = total(selectedCategory)
  /\ lastEvent.kind = "advance"

\* the message the thresholds give for a rounded accuracy percentage
messageForPercent(p) ==
  IF p >= 80 THEN "Excellent performance."
  ELSE IF p >= 60 THEN "Good performance."
  ELSE IF p >= 40 THEN "Average performance."
  ELSE "Needs improvement."

\* C8: the results message is the one selected by the thresholds 80 / 60 /
\* 40 applied to the displayed accuracyPercent = round(score / total * 100),
\* so the message always agrees with the displayed percentage.
C8_MessageAgreesWithAccuracy ==
  ResultsRendered => shownMessage = messageForPercent(shownAccuracy)

\* every question of the session answered with its correct index / with a
\* wrong index
allCorrect == \A k \in 0..(Len(userAnswers) - 1) : userAnswers[k + 1] = questionAt(k).correct

allWrong == \A k \in 0..(Len(userAnswers) - 1) : userAnswers[k + 1] # questionAt(k).correct

\* p is score / n * 100 rounded to the nearest integer, halves up
isRounded(p, s, n) == 2 * n * p <= 200 * s + n /\ 200 * s + n < 2 * n * (p + 1)

C10_ToggleOnStartsNothing ==
  lastEvent.kind = "toggleOn" => speaking = <<>>

\* C10 (amended): toggling narration from off to on during Testing at once
\* requests narration of the current question.
C10_ToggleOnNarratesCurrent ==
  [][lastEvent'.kind = "toggleOn" =>
       /\ voiceOn'
       /\ speaking' = <<questionAt(currentQuestionIndex).id>>]_vars

C10_Witness ==
  /\ lastEvent.kind = "toggleOn"
  /\ TestingRendered
  /\ showExplanation
  /\ speaking = <<questionAt(currentQuestionIndex).id>>

\* C11: toggling narration off cancels the narration in flight in that same
\* step, and while narration is disabled nothing is being spoken and nothing
\* is started.
C11_DisabledMeansSilent ==
  /\ [](~voiceOn => speaking = <<>>)
  /\ [][lastEvent'.kind = "toggleOff" => (~voiceOn' /\ speaking' = <<>>)]_vars
  /\ [][(~voiceOn /\ ~voiceOn') => speaking' = <<>>]_vars

C11_Witness ==
  /\ ~voiceOn
  /\ TestingRendered
  /\ currentQuestionIndex >= 1
  /\ ~showExplanation
  /\ lastEvent.kind = "advance"
  /\ ~lastEvent.blocked

\* C12: with narration enabled, selectCategory and every advance that moves
\* to a new question leave exactly one utterance, for the new current
\* question; submitAnswer leaves none; the advance that enters Results
\* leaves none.  At most one utterance is ever queued, and it is for the
\* current question of the session being tested.
C12_NarrationFollowsQuestion ==
  /\ [](/\ Len(speaking) <= 1
        /\ speaking # <<>> =>
             (TestingRendered /\ speaking[1] = questionAt(currentQuestionIndex).id))
  /\ [][/\ (lastEvent'.kind = "selectCategory" /\ voiceOn) =>
             speaking' = <<selectedCategory'.questions[1].id>>
        /\ (lastEvent'.kind = "advance" /\ ~lastEvent'.blocked /\ voiceOn
              /\ currentQuestionIndex' # currentQuestionIndex) =>
             speaking' = <<selectedCategory.questions[currentQuestionIndex' + 1].id>>
        /\ lastEvent'.kind = "submitAnswer" => speaking' = <<>>
        /\ (lastEvent'.kind = "advance" /\ currentState' = "results") =>
             speaking' = <<>>]_vars

C12_Witness ==
  /\ TestingRendered
  /\ voiceOn
  /\ lastEvent.kind = "advance"
  /\ currentQuestionIndex = 2
  /\ speaking = <<questionAt(2).id>>

\* the question load has failed: fetch or parse error, or the grouping threw
LoadHasFailed == loadStatus \in {"failed", "threw"}

\* C13: once the load has failed the catalog stays empty, the failure is
\* permanent, the flow is in Welcome or CategorySelection only and no
\* session exists; start is still available and leads to CategorySelection.
C13_LoadFailureKeepsCatalogEmpty ==
  /\ [](LoadHasFailed =>
          /\ testCategories = <<>>
          /\ currentState \in {"welcome", "category-selection"}
          /\ ~HasSession
          /\ currentState = "welcome" => ENABLED handleStart)
  /\ [][LoadHasFailed =>
          /\ loadStatus' = loadStatus
          /\ lastEvent'.kind = "start" => currentState' = "category-selection"]_vars

C13_Witness ==
  /\ loadStatus = "threw"
  /\ Len(rawData) = 2
  /\ rawData[1].category \notin ObjectPrototypeKeys
  /\ currentState = "category-selection"
  /\ lastEvent.kind = "start"

\* C14: the catalog changes at most once, from empty to the value built from
\* the fetched data, when the pending load resolves, and never while a
\* session exists; while the load is pending the catalog is empty, start
\* reaches CategorySelection and no category can be selected; the category
\* of a session is an element of the catalog.
C14_CatalogBuiltOnce ==
  /\ [](loadStatus = "pending" => (testCategories = <<>> /\ ~ENABLED selectCategory))
  /\ [](HasSession => \E j \in 1..Len(testCategories) : testCategories[j] = selectedCategory)
  /\ [][testCategories' # testCategories =>
          /\ testCategories = <<>>
          /\ testCategories' = categories(rawData)
          /\ loadStatus = "pending"
          /\ lastEvent'.kind = "loadResolved"
          /\ ~HasSession /\ ~HasSession']_vars
  /\ [][(loadStatus = "pending" /\ lastEvent'.kind = "start") =>
          (currentState' = "category-selection" /\ testCategories' = <<>>)]_vars

C14_Witness ==
  /\ currentState = "category-selection"
  /\ lastEvent.kind = "loadResolved"
  /\ Len(testCategories) = 2

\* the fetch has delivered rawData and the loader's callback has run
LoaderRan == loadStatus \in {"loaded", "threw"}

\* the places <<j, p>> of the catalog: question p of category j
catalogPlaces ==
  {jp \in (1..Len(testCategories)) \X (1..Len(rawData)) :
     jp[2] <= Len(testCategories[jp[1]].questions)}

catalogQuestion(jp) == testCategories[jp[1]].questions[jp[2]]

\* C15: after the loader has run on any raw record sequence, the catalog
\* holds as many questions as there are raw records; record k appears at
\* exactly one place, in the category of its own name, with id k; within a
\* category the ids increase strictly (input order).
C15_GroupingPreservesRecords ==
  LoaderRan =>
    /\ Cardinality(catalogPlaces) = Len(rawData)
    /\ \A k \in 1..Len(rawData) :
         /\ Cardinality({jp \in catalogPlaces : catalogQuestion(jp).id = k}) = 1
         /\ \A jp \in catalogPlaces :
              catalogQuestion(jp).id = k =>
                testCategories[jp[1]].name = rawData[k].category
    /\ \A jp \in catalogPlaces, jq \in catalogPlaces :
         (jp[1] = jq[1] /\ jp[2] < jq[2]) =>
           catalogQuestion(jp).id < catalogQuestion(jq).id

\* C16: every question of the loaded catalog has 0 <= correct < number of
\* its options.
C16_CorrectIndexInRange ==
  LoaderRan =>
    \A jp \in catalogPlaces :
      /\ 0 <= catalogQuestion(jp).correct
      /\ catalogQuestion(jp).correct < Len(catalogQuestion(jp).options)

\* C17: reset and selectCategory leave a fresh session state (index 0, no
\* answers, score 0, no feedback showing) and change neither the narration
\* setting nor the catalog; after reset no category is selected.
C17_FreshSession ==
  [][lastEvent'.kind \in {"selectCategory", "reset"} =>
       /\ currentQuestionIndex' = 0
       /\ userAnswers' = <<>>
       /\ score' = 0
       /\ ~showExplanation'
       /\ voiceOn' = voiceOn
       /\ testCategories' = testCategories
       /\ lastEvent'.kind = "reset" => (~HasSession' /\ currentState' = "welcome")
       /\ lastEvent'.kind = "selectCategory" =>
            (HasSession' /\ currentState' = "testing")]_vars

C17_Witness ==
  /\ lastEvent.kind = "selectCategory"
  /\ ~voiceOn
  /\ HasSession
  /\ score = 0

\* C18: in every Testing or Results state a category is selected, it has at
\* least one question and currentIndex addresses one of its questions.
C18_SessionAddressesQuestion ==
  currentState \in {"testing", "results"} =>
    /\ HasSession
    /\ total(selectedCategory) >= 1
    /\ 0 <= currentQuestionIndex
    /\ currentQuestionIndex < total(selectedCategory)

C18_Witness ==
  /\ ResultsRendered
  /\ total(selectedCategory) = 3
  /\ currentQuestionIndex = 2

\* C19: while feedback is showing for a question, the indicator is CORRECT
\* exactly when the accepted submission for that question incremented the
\* score: it is set that way by the accepted submitAnswer step and neither
\* the indicator nor the score changes while the feedback stays up.
C19_VerdictMatchesScoreChange ==
  [][(TestingRendered' /\ showExplanation') =>
       IF ~showExplanation
       THEN /\ lastEvent'.kind = "submitAnswer"
            /\ isCorrectShown' <=> (score' = score + 1)
            /\ ~isCorrectShown' <=> (score' = score)
       ELSE /\ isCorrectShown' = isCorrectShown
            /\ score' = score]_vars

C19_Witness ==
  /\ TestingRendered
  /\ currentQuestionIndex = 1
  /\ isCorrectShown
  /\ score = 1
  /\ lastEvent.kind = "toggleOff"

\* C20: no Testing state is a deadlock: in every Testing state either
\* submitAnswer or advance is enabled.
C20_NoTestingDeadlock ==
  TestingRendered => (ENABLED acceptedSubmit \/ ENABLED acceptedAdvance)

\* every question of the selected category has at least one option
allQuestionsHaveOptions ==
  \A k \in 0..(total(selectedCategory) - 1) : Len(questionAt(k).options) >= 1

\* C20 (amended): from Testing on a category of N questions that each have
\* at least one option, a user who keeps taking the enabled submitAnswer and
\* advance actions eventually reaches Results; Results is reached with N
\* recorded answers and on the N-th advance; a Testing state whose current
\* question has an option is not a deadlock.
C20_AnsweredSessionReachesResults ==
  /\ (TestingRendered /\ allQuestionsHaveOptions) ~> (currentState = "results")
  /\ [](ResultsRendered =>
          /\ Len(userAnswers) = total(selectedCategory)
          /\ currentQuestionIndex + 1 = total(selectedCategory))
  /\ []((TestingRendered /\ Len(questionAt(currentQuestionIndex).options) >= 1) =>
          (ENABLED acceptedSubmit \/ ENABLED acceptedAdvance))

C20_Witness ==
  /\ ResultsRendered
  /\ total(selectedCategory) = 3
  /\ allQuestionsHaveOptions
  /\ lastEvent.kind = "advance"

====
